---- MODULE Spec2Model ----
(***************************************************************************)
(* Model of openmote-py Serial.py: the Serial thread (frame synchronizer   *)
(* inside run()), the receive()/transmit() caller paths, stop() and the    *)
(* statistics counters.  Each `self.x += 1` is a load followed by a store, *)
(* each statement that touches shared state is one step.                   *)
(***************************************************************************)
EXTENDS Integers, Sequences, FiniteSets, TLC

\* ---------------------------------------------------------------- bounds
MaxBytes == 6
MaxChunk == 2
MaxReceives == 2
MaxTransmits == 2

\* ------------------------------------------------------------- constants
\* Hdlc.HDLC_FLAG, the frame delimiter of the codec.
HDLC_FLAG == 126
\* The '' that rx_byte and last_rx_byte hold when no byte is remembered.
NoByte == 256

DataBytes == {1, 2}
Bytes == DataBytes \cup {HDLC_FLAG}

\* Payloads the codec may hand back from dehdlcify, the empty one included.
Payloads == {<<>>, <<1>>}

Consumers == {"c1", "c2"}
Transmitters == {"t1", "t2"}
NoOwner == "none"

\* Byte streams the serial line may deliver: every stream of MaxBytes bytes for
\* the synchronizer alone, fixed streams of one or two frames beside callers.
Lines == [1..MaxBytes -> Bytes]
LiveLines == {<<HDLC_FLAG, 1, 2, HDLC_FLAG>>}
RxLines == {<<HDLC_FLAG, 1, HDLC_FLAG, HDLC_FLAG, 2, 1, HDLC_FLAG>>}
TxLines == {<<HDLC_FLAG, 1, HDLC_FLAG>>}

Min(a, b) == IF a < b THEN a ELSE b

VARIABLES
  \* Serial object
  stop_event, port_closes,
  is_receiving, rx_byte, last_rx_byte, receive_buffer, receive_message,
  transmit_buffer,
  tx_total_frames, tx_good_frames, tx_bad_frames,
  rx_total_frames, rx_good_frames, rx_bad_frames,
  \* receive_condition: owner of its lock, threads blocked in wait()
  cond_owner, cond_waiters,
  \* run() thread
  pc_run, rx_bytes, rx_length, reg_run,
  \* receive() callers
  pc_rx, message, length, woke,
  \* transmit() callers
  pc_tx, tx_arg, reg_tx, tx_outcome,
  \* clear_statistics() caller
  pc_clr,
  \* serial line
  wire_writes, line,
  \* call budgets
  n_receives, n_transmits,
  \* history
  fed, frames, slot_id, slot_pay, n_pub, superseded, superseding, n_notify,
  frame_snap, frame_outcome, errored,
  msg_id, msg_pay, call_sid, call_msg, call_pay, call_fail, pub_during,
  taken_during, tx_snap, tx_wrote, tx_interf, delivered, call_follows, clr_base

serial_vars == <<stop_event, port_closes, is_receiving, rx_byte, last_rx_byte,
                 receive_buffer, receive_message, transmit_buffer>>
stat_vars == <<tx_total_frames, tx_good_frames, tx_bad_frames,
               rx_total_frames, rx_good_frames, rx_bad_frames>>
cond_vars == <<cond_owner, cond_waiters>>
run_vars == <<pc_run, rx_bytes, rx_length, reg_run>>
rx_vars == <<pc_rx, message, length, woke>>
tx_vars == <<pc_tx, tx_arg, reg_tx, tx_outcome>>
env_vars == <<wire_writes, line, n_receives, n_transmits, pc_clr>>
hist_vars == <<fed, frames, slot_id, slot_pay, n_pub, superseded, superseding,
               n_notify, frame_snap, frame_outcome, errored,
               msg_id, msg_pay, call_sid, call_msg, call_pay, call_fail,
               pub_during, taken_during, tx_snap, tx_wrote, tx_interf,
               delivered, call_follows, clr_base>>
vars == <<serial_vars, stat_vars, cond_vars, run_vars, rx_vars, tx_vars,
          env_vars, hist_vars>>

Stats == [tx_total |-> tx_total_frames, tx_good |-> tx_good_frames,
          tx_bad |-> tx_bad_frames, rx_total |-> rx_total_frames,
          rx_good |-> rx_good_frames, rx_bad |-> rx_bad_frames]

\* What has been counted so far, told from the history rather than from the
\* counters: transmit() calls begun, writes that returned, raw frames completed,
\* frames decoded.
RECURSIVE SumOver(_, _)
SumOver(f, S) ==
  IF S = {} THEN 0
  ELSE LET x == CHOOSE y \in S : TRUE IN f[x] + SumOver(f, S \ {x})

Events == [calls |-> SumOver(n_transmits, Transmitters), writes |-> wire_writes,
           frames |-> Len(frames), pubs |-> n_pub]

\* No transmit() is in progress and run() is not between completing a frame and
\* counting it as good or bad.
NoCountInProgress ==
  /\ \A t \in Transmitters : pc_tx[t] = "idle"
  /\ pc_run \notin {"total_ld", "total_st", "decode", "good_ld", "good_st",
                    "bad_ld", "bad_st"}

\* clr_base when no clear_statistics() has run by itself.
NoClear == [seq |-> FALSE, calls |-> 0, writes |-> 0, frames |-> 0, pubs |-> 0]

\* State after Serial.__init__ (port opened, thread not started).
Constructed ==
  /\ stop_event = FALSE /\ port_closes = 0
  /\ is_receiving = FALSE /\ rx_byte = NoByte /\ last_rx_byte = NoByte
  /\ receive_buffer = <<>> /\ receive_message = <<>> /\ transmit_buffer = <<>>
  /\ tx_total_frames = 0 /\ tx_good_frames = 0 /\ tx_bad_frames = 0
  /\ rx_total_frames = 0 /\ rx_good_frames = 0 /\ rx_bad_frames = 0
  /\ cond_owner = NoOwner /\ cond_waiters = {}
  /\ pc_run = "init" /\ rx_bytes = <<>> /\ rx_length = 0 /\ reg_run = 0
  /\ pc_rx = [c \in Consumers |-> "idle"]
  /\ message = [c \in Consumers |-> <<>>]
  /\ length = [c \in Consumers |-> -1]
  /\ woke = [c \in Consumers |-> "no"]
  /\ pc_tx = [t \in Transmitters |-> "idle"]
  /\ tx_arg = [t \in Transmitters |-> <<>>]
  /\ reg_tx = [t \in Transmitters |-> 0]
  /\ tx_outcome = [t \in Transmitters |-> "none"]
  /\ pc_clr = 0
  /\ wire_writes = 0
  /\ n_receives = 0
  /\ n_transmits = [t \in Transmitters |-> 0]
  /\ fed = <<>> /\ frames = <<>>
  /\ slot_id = 0 /\ slot_pay = <<>> /\ n_pub = 0
  /\ superseded = {} /\ superseding = {} /\ n_notify = 0
  /\ frame_snap = [total |-> 0, good |-> 0, bad |-> 0, notify |-> 0, empty |-> TRUE]
  /\ frame_outcome = "none" /\ errored = FALSE
  /\ msg_id = [c \in Consumers |-> 0]
  /\ msg_pay = [c \in Consumers |-> <<>>]
  /\ call_sid = [c \in Consumers |-> 0]
  /\ call_msg = [c \in Consumers |-> <<>>]
  /\ call_pay = [c \in Consumers |-> <<>>]
  /\ call_fail = [c \in Consumers |-> FALSE]
  /\ pub_during = [c \in Consumers |-> FALSE]
  /\ taken_during = [c \in Consumers |-> FALSE]
  /\ tx_snap = [t \in Transmitters |-> [total |-> 0, good |-> 0, bad |-> 0]]
  /\ tx_wrote = [t \in Transmitters |-> FALSE]
  /\ tx_interf = [t \in Transmitters |-> FALSE]
  /\ delivered = <<>>
  /\ call_follows = [c \in Consumers |-> FALSE]
  /\ clr_base = NoClear

\* ------------------------------------------------------------ run() thread
\* Loop condition of run(): leave the loop when the stop event is set.
LoopExits_Never(stop) == FALSE
LoopExits(stop) == stop

\* The three branch conditions of the frame synchronizer.
StartOfFrame_AnyPrev(recv, last, b) == (~recv) /\ b # HDLC_FLAG
StartOfFrame(recv, last, b) == (~recv) /\ last = HDLC_FLAG /\ b # HDLC_FLAG
MiddleOfFrame(recv, b) == recv /\ b # HDLC_FLAG
EndOfFrame_AnyFlag(recv, b) == b = HDLC_FLAG
EndOfFrame(recv, b) == recv /\ b = HDLC_FLAG

\* Buffer a new frame starts with.
StartBuffer_NoFlag(b) == <<b>>
StartBuffer(b) == <<HDLC_FLAG, b>>

\* What last_rx_byte holds once a frame has been closed (rx_byte was reset to '').
LastAfterEnd_KeepsFlag(b) == HDLC_FLAG
LastAfterEnd(b) == NoByte

\* What last_rx_byte holds when the next chunk has been read: the loop head
\* does not touch it.
LastAcrossReads_Cleared(last) == NoByte
LastAcrossReads(last) == last

\* Slot content after a successful decode and after a failed one.
PublishSlot_KeepUnread(old, new) == IF old # <<>> THEN old ELSE new
PublishSlot_Raw(old, new) == receive_buffer
PublishSlot(old, new) == new
FailSlot(old) == <<>>

\* Where run() goes when the port raises (break) and when dehdlcify raises.
AfterPollError_NoBreak == "feed"
AfterPollError == "close"
AfterDecodeError_CountedGood == "good_ld"
AfterDecodeError == "bad_ld"

InCall(c) == pc_rx[c] # "idle"

RunStart ==
  /\ pc_run = "init"
  /\ pc_run' = "loop"
  /\ UNCHANGED <<serial_vars, stat_vars, cond_vars, rx_bytes, rx_length, reg_run,
                 rx_vars, tx_vars, env_vars, hist_vars>>

RunLoopTest ==
  /\ pc_run = "loop"
  /\ pc_run' = IF LoopExits(stop_event) THEN "close" ELSE "poll"
  /\ UNCHANGED <<serial_vars, stat_vars, cond_vars, rx_bytes, rx_length, reg_run,
                 rx_vars, tx_vars, env_vars, hist_vars>>

\* in_waiting and read() succeed: the chunk read may be empty (in_waiting = 0).
RunPoll ==
  /\ pc_run = "poll"
  /\ \E k \in 0..Min(MaxChunk, Len(line)) :
       /\ rx_bytes' = SubSeq(line, 1, k)
       /\ rx_length' = k
       /\ line' = SubSeq(line, k + 1, Len(line))
  /\ last_rx_byte' = LastAcrossReads(last_rx_byte)
  /\ pc_run' = "feed"
  /\ UNCHANGED <<stop_event, port_closes, is_receiving, rx_byte, receive_buffer,
                 receive_message, transmit_buffer, stat_vars, cond_vars, reg_run,
                 rx_vars, tx_vars, wire_writes, n_receives, n_transmits, pc_clr,
                 hist_vars>>

\* in_waiting or read() raises: stop() and break.
RunPollError ==
  /\ pc_run = "poll"
  /\ rx_bytes' = <<>>
  /\ rx_length' = 0
  /\ stop_event' = TRUE
  /\ pc_run' = AfterPollError
  /\ errored' = TRUE
  /\ UNCHANGED <<port_closes, is_receiving, rx_byte, last_rx_byte, receive_buffer,
                 receive_message, transmit_buffer, stat_vars, cond_vars, reg_run,
                 rx_vars, tx_vars, env_vars,
                 fed, frames, slot_id, slot_pay, n_pub, superseded, superseding,
                 n_notify, frame_snap, frame_outcome, msg_id, msg_pay, call_sid,
                 call_msg, call_pay, call_fail, pub_during, taken_during, tx_snap,
                 tx_wrote,
                 tx_interf, delivered, call_follows, clr_base>>

feed_unchanged == <<stop_event, port_closes, receive_message, transmit_buffer,
                    stat_vars, cond_vars, rx_length, reg_run, rx_vars, tx_vars,
                    env_vars, slot_id, slot_pay, n_pub, superseded, superseding,
                    n_notify, errored, msg_id, msg_pay, call_sid, call_msg, call_pay,
                    call_fail, pub_during, taken_during, tx_snap, tx_wrote,
                    tx_interf, delivered, call_follows, clr_base>>

RunFeedStart ==
  /\ pc_run = "feed" /\ rx_bytes # <<>>
  /\ LET b == Head(rx_bytes) IN
       /\ StartOfFrame(is_receiving, last_rx_byte, b)
       /\ rx_byte' = b
       /\ is_receiving' = TRUE
       /\ receive_buffer' = StartBuffer(b)
       /\ last_rx_byte' = b
       /\ fed' = Append(fed, b)
  /\ rx_bytes' = Tail(rx_bytes)
  /\ UNCHANGED <<pc_run, frames, frame_snap, frame_outcome, feed_unchanged>>

RunFeedMiddle ==
  /\ pc_run = "feed" /\ rx_bytes # <<>>
  /\ LET b == Head(rx_bytes) IN
       /\ ~StartOfFrame(is_receiving, last_rx_byte, b)
       /\ MiddleOfFrame(is_receiving, b)
       /\ rx_byte' = b
       /\ receive_buffer' = Append(receive_buffer, b)
       /\ last_rx_byte' = b
       /\ fed' = Append(fed, b)
  /\ rx_bytes' = Tail(rx_bytes)
  /\ UNCHANGED <<pc_run, is_receiving, frames, frame_snap, frame_outcome,
                 feed_unchanged>>

\* End of frame: close the buffer, reset the synchronizer, go on to the statistics.
RunFeedEnd ==
  /\ pc_run = "feed" /\ rx_bytes # <<>>
  /\ LET b == Head(rx_bytes) IN
       /\ ~StartOfFrame(is_receiving, last_rx_byte, b)
       /\ ~MiddleOfFrame(is_receiving, b)
       /\ EndOfFrame(is_receiving, b)
       /\ receive_buffer' = Append(receive_buffer, b)
       /\ is_receiving' = FALSE
       /\ last_rx_byte' = NoByte
       /\ rx_byte' = NoByte
       /\ fed' = Append(fed, b)
       /\ frames' = Append(frames, [raw |-> Append(receive_buffer, b),
                                    at |-> Len(fed) + 1])
  /\ rx_bytes' = Tail(rx_bytes)
  /\ frame_snap' = [total |-> rx_total_frames, good |-> rx_good_frames,
                    bad |-> rx_bad_frames, notify |-> n_notify,
                    empty |-> (receive_message = <<>>)]
  /\ frame_outcome' = "none"
  /\ pc_run' = "total_ld"
  /\ UNCHANGED feed_unchanged

\* No branch taken: only last_rx_byte is updated.
RunFeedOther ==
  /\ pc_run = "feed" /\ rx_bytes # <<>>
  /\ LET b == Head(rx_bytes) IN
       /\ ~StartOfFrame(is_receiving, last_rx_byte, b)
       /\ ~MiddleOfFrame(is_receiving, b)
       /\ ~EndOfFrame(is_receiving, b)
       /\ rx_byte' = b
       /\ last_rx_byte' = b
       /\ fed' = Append(fed, b)
  /\ rx_bytes' = Tail(rx_bytes)
  /\ UNCHANGED <<pc_run, is_receiving, receive_buffer, frames, frame_snap,
                 frame_outcome, feed_unchanged>>

\* All bytes of the chunk consumed: sleep when nothing was read, next iteration.
RunIterEnd ==
  /\ pc_run = "feed" /\ rx_bytes = <<>>
  /\ pc_run' = "loop"
  /\ UNCHANGED <<serial_vars, stat_vars, cond_vars, rx_bytes, rx_length, reg_run,
                 rx_vars, tx_vars, env_vars, hist_vars>>

run_stat_unchanged == <<serial_vars, cond_vars, rx_bytes, rx_length, rx_vars,
                        tx_vars, env_vars, hist_vars>>

RunTotalLoad ==
  /\ pc_run = "total_ld"
  /\ reg_run' = rx_total_frames
  /\ pc_run' = "total_st"
  /\ UNCHANGED <<stat_vars, run_stat_unchanged>>

RunTotalStore ==
  /\ pc_run = "total_st"
  /\ rx_total_frames' = reg_run + 1
  /\ pc_run' = "decode"
  /\ UNCHANGED <<tx_total_frames, tx_good_frames, tx_bad_frames, rx_good_frames,
                 rx_bad_frames, reg_run, run_stat_unchanged>>

decode_unchanged == <<stop_event, port_closes, is_receiving, rx_byte, last_rx_byte,
                      transmit_buffer, stat_vars, cond_vars, rx_bytes, rx_length,
                      reg_run, rx_vars, tx_vars, env_vars, fed, frames, n_notify,
                      frame_snap, errored, msg_id, msg_pay, call_sid, call_msg, call_pay,
                      call_fail, tx_snap, tx_wrote, tx_interf, delivered,
                      call_follows, clr_base>>

\* dehdlcify returns a payload: it is stored in receive_message (no lock held).
RunDecodeOk ==
  /\ pc_run = "decode"
  /\ \E p \in Payloads :
       /\ receive_message' = PublishSlot(receive_message, p)
       /\ slot_pay' = p
  /\ n_pub' = n_pub + 1
  /\ slot_id' = n_pub + 1
  /\ superseded' = IF slot_id > 0 /\ \A c \in Consumers : ~InCall(c)
                     THEN superseded \cup {slot_id} ELSE superseded
  /\ superseding' = IF slot_id > 0 /\ \A c \in Consumers : ~InCall(c)
                      THEN superseding \cup {n_pub + 1} ELSE superseding
  /\ pub_during' = [c \in Consumers |-> pub_during[c] \/ InCall(c)]
  /\ frame_outcome' = "ok"
  /\ pc_run' = "good_ld"
  /\ UNCHANGED <<receive_buffer, taken_during, decode_unchanged>>

\* dehdlcify raises: both buffers are cleaned.
RunDecodeFail ==
  /\ pc_run = "decode"
  /\ receive_buffer' = <<>>
  /\ receive_message' = FailSlot(receive_message)
  /\ slot_id' = 0
  /\ slot_pay' = <<>>
  /\ taken_during' = [c \in Consumers |-> taken_during[c] \/ InCall(c)]
  /\ frame_outcome' = "fail"
  /\ pc_run' = AfterDecodeError
  /\ UNCHANGED <<n_pub, superseded, superseding, pub_during, decode_unchanged>>

RunGoodLoad ==
  /\ pc_run = "good_ld"
  /\ reg_run' = rx_good_frames
  /\ pc_run' = "good_st"
  /\ UNCHANGED <<stat_vars, run_stat_unchanged>>

RunGoodStore ==
  /\ pc_run = "good_st"
  /\ rx_good_frames' = reg_run + 1
  /\ pc_run' = "acquire"
  /\ UNCHANGED <<tx_total_frames, tx_good_frames, tx_bad_frames, rx_total_frames,
                 rx_bad_frames, reg_run, run_stat_unchanged>>

RunBadLoad ==
  /\ pc_run = "bad_ld"
  /\ reg_run' = rx_bad_frames
  /\ pc_run' = "bad_st"
  /\ UNCHANGED <<stat_vars, run_stat_unchanged>>

\* rx_bad_frames is stored, then last_rx_byte = rx_byte ends the byte.
RunBadStore ==
  /\ pc_run = "bad_st"
  /\ rx_bad_frames' = reg_run + 1
  /\ last_rx_byte' = LastAfterEnd(rx_byte)
  /\ pc_run' = "feed"
  /\ UNCHANGED <<stop_event, port_closes, is_receiving, rx_byte, receive_buffer,
                 receive_message, transmit_buffer,
                 tx_total_frames, tx_good_frames, tx_bad_frames, rx_total_frames,
                 rx_good_frames, cond_vars, rx_bytes, rx_length, reg_run, rx_vars,
                 tx_vars, env_vars, hist_vars>>

RunAcquire ==
  /\ pc_run = "acquire"
  /\ cond_owner = NoOwner
  /\ cond_owner' = "run"
  /\ pc_run' = "notify"
  /\ UNCHANGED <<serial_vars, stat_vars, cond_waiters, rx_bytes, rx_length, reg_run,
                 rx_vars, tx_vars, env_vars, hist_vars>>

\* notify(): wakes one waiter when there is one.
RunNotify ==
  /\ pc_run = "notify"
  /\ \/ /\ cond_waiters = {}
        /\ UNCHANGED <<cond_waiters, pc_rx, woke>>
     \/ \E w \in cond_waiters :
          /\ cond_waiters' = cond_waiters \ {w}
          /\ pc_rx' = [pc_rx EXCEPT ![w] = "woken"]
          /\ woke' = [woke EXCEPT ![w] = "notified"]
  /\ n_notify' = n_notify + 1
  /\ pub_during' = [c \in Consumers |-> pub_during[c] \/ InCall(c)]
  /\ pc_run' = "release"
  /\ UNCHANGED <<serial_vars, stat_vars, cond_owner, rx_bytes, rx_length, reg_run,
                 message, length, tx_vars, env_vars,
                 fed, frames, slot_id, slot_pay, n_pub, superseded, superseding,
                 frame_snap, frame_outcome, errored, msg_id, msg_pay, call_sid,
                 call_msg, call_pay, call_fail, taken_during, tx_snap, tx_wrote,
                 tx_interf, delivered, call_follows, clr_base>>

\* release(), receive_buffer = [], then last_rx_byte = rx_byte ends the byte.
RunRelease ==
  /\ pc_run = "release"
  /\ cond_owner' = NoOwner
  /\ receive_buffer' = <<>>
  /\ last_rx_byte' = LastAfterEnd(rx_byte)
  /\ pc_run' = "feed"
  /\ UNCHANGED <<stop_event, port_closes, is_receiving, rx_byte, receive_message,
                 transmit_buffer, stat_vars, cond_waiters, rx_bytes, rx_length,
                 reg_run, rx_vars, tx_vars, env_vars, hist_vars>>

RunClose ==
  /\ pc_run = "close"
  /\ port_closes' = port_closes + 1
  /\ pc_run' = "done"
  /\ UNCHANGED <<stop_event, is_receiving, rx_byte, last_rx_byte, receive_buffer,
                 receive_message, transmit_buffer, stat_vars, cond_vars, rx_bytes,
                 rx_length, reg_run, rx_vars, tx_vars, env_vars, hist_vars>>

\* stop(), from any thread.
Stop ==
  /\ stop_event' = TRUE
  /\ UNCHANGED <<port_closes, is_receiving, rx_byte, last_rx_byte, receive_buffer,
                 receive_message, transmit_buffer, stat_vars, cond_vars, run_vars,
                 rx_vars, tx_vars, env_vars, hist_vars>>

\* The steps of run() once the thread has been started.
RunSteps ==
  \/ RunLoopTest \/ RunPoll \/ RunPollError
  \/ RunFeedStart \/ RunFeedMiddle \/ RunFeedEnd \/ RunFeedOther \/ RunIterEnd
  \/ RunTotalLoad \/ RunTotalStore \/ RunDecodeOk \/ RunDecodeFail
  \/ RunGoodLoad \/ RunGoodStore \/ RunBadLoad \/ RunBadStore
  \/ RunAcquire \/ RunNotify \/ RunRelease \/ RunClose

RunNext == RunStart \/ RunSteps

\* ------------------------------------------------------------- receive()
\* The test `if (self.receive_message)` and the length reported with a message.
HasMessage_Always(m) == TRUE
HasMessage(m) == m # <<>>
MessageLength(m) == Len(m)

\* What receive() leaves in the slot.
ResetSlot_Kept(old) == old
ResetSlot(old) == <<>>

\* wait(timeout) may end by timeout whenever the caller is still waiting.
WaitMayTimeOut(waiting) == waiting

rx_call_unchanged == <<serial_vars, stat_vars, run_vars, tx_vars, wire_writes,
                       line, n_transmits, pc_clr, fed, frames,
                       slot_id, slot_pay, n_pub, superseded, superseding, n_notify,
                       frame_snap, frame_outcome, errored, tx_snap, tx_wrote,
                       tx_interf, delivered, clr_base>>

\* receive(): locals initialised, the condition's lock acquired.
ReceiveCall(c) ==
  /\ pc_rx[c] = "idle"
  /\ n_receives < MaxReceives
  /\ cond_owner = NoOwner
  /\ cond_owner' = c
  /\ n_receives' = n_receives + 1
  /\ message' = [message EXCEPT ![c] = <<>>]
  /\ length' = [length EXCEPT ![c] = -1]
  /\ woke' = [woke EXCEPT ![c] = "no"]
  /\ pc_rx' = [pc_rx EXCEPT ![c] = "wait"]
  /\ msg_id' = [msg_id EXCEPT ![c] = 0]
  /\ msg_pay' = [msg_pay EXCEPT ![c] = <<>>]
  /\ call_sid' = [call_sid EXCEPT ![c] = slot_id]
  /\ call_msg' = [call_msg EXCEPT ![c] = receive_message]
  /\ call_pay' = [call_pay EXCEPT ![c] = slot_pay]
  /\ call_fail' = [call_fail EXCEPT ![c] =
                     /\ frame_outcome = "fail"
                     /\ pc_run \notin {"bad_ld", "bad_st"}
                     /\ frame_snap.empty]
  /\ pub_during' = [pub_during EXCEPT ![c] = FALSE]
  /\ taken_during' = [taken_during EXCEPT ![c] = FALSE]
  /\ call_follows' = [call_follows EXCEPT ![c] =
                        delivered # <<>> /\ delivered[Len(delivered)] = n_pub]
  /\ UNCHANGED <<cond_waiters, rx_call_unchanged>>

rx_unchanged == <<stat_vars, run_vars, tx_vars, env_vars, fed, frames, n_pub,
                  superseded, superseding, n_notify, frame_snap, frame_outcome,
                  errored, call_sid, call_msg, call_pay, call_fail, pub_during, tx_snap,
                  tx_wrote, tx_interf, call_follows, clr_base>>

\* wait(timeout), first half: the lock is released and the caller blocks.
ReceiveWait(c) ==
  /\ pc_rx[c] = "wait"
  /\ cond_owner' = NoOwner
  /\ cond_waiters' = cond_waiters \cup {c}
  /\ pc_rx' = [pc_rx EXCEPT ![c] = "waiting"]
  /\ UNCHANGED <<serial_vars, message, length, woke, slot_id, slot_pay, msg_id,
                 msg_pay, taken_during, delivered, rx_unchanged>>

\* wait(timeout) ends because the timeout expired.
ReceiveTimeout(c) ==
  /\ WaitMayTimeOut(pc_rx[c] = "waiting")
  /\ cond_waiters' = cond_waiters \ {c}
  /\ woke' = [woke EXCEPT ![c] = "timeout"]
  /\ pc_rx' = [pc_rx EXCEPT ![c] = "woken"]
  /\ UNCHANGED <<serial_vars, cond_owner, message, length, slot_id, slot_pay,
                 msg_id, msg_pay, taken_during, delivered, rx_unchanged>>

\* wait(timeout), second half: the lock is taken back.
ReceiveReacquire(c) ==
  /\ pc_rx[c] = "woken"
  /\ cond_owner = NoOwner
  /\ cond_owner' = c
  /\ pc_rx' = [pc_rx EXCEPT ![c] = "check"]
  /\ UNCHANGED <<serial_vars, cond_waiters, message, length, woke, slot_id,
                 slot_pay, msg_id, msg_pay, taken_during, delivered, rx_unchanged>>

\* `if (self.receive_message)`: copy the message and its length.
ReceiveCheck(c) ==
  /\ pc_rx[c] = "check"
  /\ IF HasMessage(receive_message)
       THEN /\ message' = [message EXCEPT ![c] = receive_message]
            /\ length' = [length EXCEPT ![c] = MessageLength(receive_message)]
            /\ msg_id' = [msg_id EXCEPT ![c] = slot_id]
            /\ msg_pay' = [msg_pay EXCEPT ![c] = slot_pay]
            /\ delivered' = Append(delivered, slot_id)
       ELSE UNCHANGED <<message, length, msg_id, msg_pay, delivered>>
  /\ pc_rx' = [pc_rx EXCEPT ![c] = "reset"]
  /\ UNCHANGED <<serial_vars, cond_vars, woke, slot_id, slot_pay, taken_during,
                 rx_unchanged>>

\* self.receive_message = []
ReceiveReset(c) ==
  /\ pc_rx[c] = "reset"
  /\ receive_message' = ResetSlot(receive_message)
  /\ slot_id' = IF receive_message' = <<>> THEN 0 ELSE slot_id
  /\ slot_pay' = IF receive_message' = <<>> THEN <<>> ELSE slot_pay
  /\ taken_during' = [d \in Consumers |->
                        taken_during[d] \/ (d # c /\ InCall(d))]
  /\ pc_rx' = [pc_rx EXCEPT ![c] = "return"]
  /\ UNCHANGED <<stop_event, port_closes, is_receiving, rx_byte, last_rx_byte,
                 receive_buffer, transmit_buffer, cond_vars, message, length, woke,
                 msg_id, msg_pay, delivered, rx_unchanged>>

\* The lock is released and (message, length) returned.
ReceiveReturn(c) ==
  /\ pc_rx[c] = "return"
  /\ cond_owner' = NoOwner
  /\ pc_rx' = [pc_rx EXCEPT ![c] = "idle"]
  /\ UNCHANGED <<serial_vars, cond_waiters, message, length, woke, slot_id,
                 slot_pay, msg_id, msg_pay, taken_during, delivered, rx_unchanged>>

\* The steps of a receive() call once it has begun.
ReceiveSteps(c) ==
  \/ ReceiveWait(c) \/ ReceiveTimeout(c) \/ ReceiveReacquire(c)
  \/ ReceiveCheck(c) \/ ReceiveReset(c) \/ ReceiveReturn(c)

ReceiveNext(c) == ReceiveCall(c) \/ ReceiveSteps(c)

\* ------------------------------------------------------------ transmit()
\* The payload each caller thread transmits.
TxPayloads(t) == IF t = "t1" THEN {<<1>>} ELSE {<<2>>}

\* How many calls each caller thread makes: one thread calls once, the other
\* up to MaxTransmits times.
TxCalls(t) == IF t = "t1" THEN 1 ELSE MaxTransmits

\* Hdlc.hdlcify: the payload between two flags.
Hdlcify(p) == <<HDLC_FLAG>> \o p \o <<HDLC_FLAG>>

\* Where transmit() goes when hdlcify raises and when it returns.
AfterEncodeError_Swallowed == "write"
AfterEncodeError == "bad_ld"
AfterEncode == "write"

\* Where transmit() goes when serial_port.write raises.
AfterWriteError_CountedGood == "good_ld"
AfterWriteError == "bad_ld"

Others(t) == [u \in Transmitters |-> tx_interf[u] \/ u # t]

tx_unchanged == <<stop_event, port_closes, is_receiving, rx_byte, last_rx_byte,
                  receive_buffer, receive_message, cond_vars, run_vars, rx_vars,
                  line, n_receives, pc_clr, fed, frames, slot_id,
                  slot_pay, n_pub, superseded, superseding, n_notify, frame_snap,
                  frame_outcome, errored, msg_id, msg_pay, call_sid, call_msg, call_pay,
                  call_fail, pub_during, taken_during, delivered, call_follows,
                  clr_base>>

\* transmit(message): tx_total_frames is loaded.
TransmitCall(t) ==
  /\ pc_tx[t] = "idle"
  /\ n_transmits[t] < TxCalls(t)
  /\ n_transmits' = [n_transmits EXCEPT ![t] = n_transmits[t] + 1]
  /\ \E p \in TxPayloads(t) : tx_arg' = [tx_arg EXCEPT ![t] = p]
  /\ reg_tx' = [reg_tx EXCEPT ![t] = tx_total_frames]
  /\ tx_outcome' = [tx_outcome EXCEPT ![t] = "none"]
  /\ tx_snap' = [tx_snap EXCEPT ![t] = [total |-> tx_total_frames,
                                        good |-> tx_good_frames,
                                        bad |-> tx_bad_frames]]
  /\ tx_wrote' = [tx_wrote EXCEPT ![t] = FALSE]
  /\ tx_interf' = [tx_interf EXCEPT ![t] = FALSE]
  /\ pc_tx' = [pc_tx EXCEPT ![t] = "total_st"]
  /\ UNCHANGED <<transmit_buffer, stat_vars, wire_writes, tx_unchanged>>

TransmitTotalStore(t) ==
  /\ pc_tx[t] = "total_st"
  /\ tx_total_frames' = reg_tx[t] + 1
  /\ tx_interf' = Others(t)
  /\ pc_tx' = [pc_tx EXCEPT ![t] = "encode"]
  /\ UNCHANGED <<transmit_buffer, tx_good_frames, tx_bad_frames, rx_total_frames,
                 rx_good_frames, rx_bad_frames, tx_arg, reg_tx, tx_outcome,
                 wire_writes, n_transmits, tx_snap, tx_wrote, tx_unchanged>>

\* hdlcify returns: the encoded frame is kept in self.transmit_buffer.
TransmitEncodeOk(t) ==
  /\ pc_tx[t] = "encode"
  /\ transmit_buffer' = Hdlcify(tx_arg[t])
  /\ pc_tx' = [pc_tx EXCEPT ![t] = AfterEncode]
  /\ UNCHANGED <<stat_vars, tx_arg, reg_tx, tx_outcome, wire_writes, n_transmits,
                 tx_snap, tx_wrote, tx_interf, tx_unchanged>>

\* hdlcify raises.
TransmitEncodeFail(t) ==
  /\ pc_tx[t] = "encode"
  /\ tx_outcome' = [tx_outcome EXCEPT ![t] = "encode_error"]
  /\ pc_tx' = [pc_tx EXCEPT ![t] = AfterEncodeError]
  /\ UNCHANGED <<transmit_buffer, stat_vars, tx_arg, reg_tx, wire_writes,
                 n_transmits, tx_snap, tx_wrote, tx_interf, tx_unchanged>>

\* serial_port.write(self.transmit_buffer) returns.
TransmitWriteOk(t) ==
  /\ pc_tx[t] = "write"
  /\ wire_writes' = wire_writes + 1
  /\ tx_wrote' = [tx_wrote EXCEPT ![t] = TRUE]
  /\ pc_tx' = [pc_tx EXCEPT ![t] = "good_ld"]
  /\ UNCHANGED <<transmit_buffer, stat_vars, tx_arg, reg_tx, tx_outcome,
                 n_transmits, tx_snap, tx_interf, tx_unchanged>>

\* serial_port.write raises.
TransmitWriteFail(t) ==
  /\ pc_tx[t] = "write"
  /\ tx_wrote' = [tx_wrote EXCEPT ![t] = TRUE]
  /\ tx_outcome' = [tx_outcome EXCEPT ![t] = "write_error"]
  /\ pc_tx' = [pc_tx EXCEPT ![t] = AfterWriteError]
  /\ UNCHANGED <<transmit_buffer, stat_vars, tx_arg, reg_tx, wire_writes,
                 n_transmits, tx_snap, tx_interf, tx_unchanged>>

TransmitBadLoad(t) ==
  /\ pc_tx[t] = "bad_ld"
  /\ reg_tx' = [reg_tx EXCEPT ![t] = tx_bad_frames]
  /\ pc_tx' = [pc_tx EXCEPT ![t] = "bad_st"]
  /\ UNCHANGED <<transmit_buffer, stat_vars, tx_arg, tx_outcome, wire_writes,
                 n_transmits, tx_snap, tx_wrote, tx_interf, tx_unchanged>>

\* tx_bad_frames is stored and the exception re-raised to the caller.
TransmitBadStore(t) ==
  /\ pc_tx[t] = "bad_st"
  /\ tx_bad_frames' = reg_tx[t] + 1
  /\ tx_interf' = Others(t)
  /\ pc_tx' = [pc_tx EXCEPT ![t] = "idle"]
  /\ UNCHANGED <<transmit_buffer, tx_total_frames, tx_good_frames, rx_total_frames,
                 rx_good_frames, rx_bad_frames, tx_arg, reg_tx, tx_outcome,
                 wire_writes, n_transmits, tx_snap, tx_wrote, tx_unchanged>>

TransmitGoodLoad(t) ==
  /\ pc_tx[t] = "good_ld"
  /\ reg_tx' = [reg_tx EXCEPT ![t] = tx_good_frames]
  /\ pc_tx' = [pc_tx EXCEPT ![t] = "good_st"]
  /\ UNCHANGED <<transmit_buffer, stat_vars, tx_arg, tx_outcome, wire_writes,
                 n_transmits, tx_snap, tx_wrote, tx_interf, tx_unchanged>>

\* tx_good_frames is stored and transmit() returns.
TransmitGoodStore(t) ==
  /\ pc_tx[t] = "good_st"
  /\ tx_good_frames' = reg_tx[t] + 1
  /\ tx_interf' = Others(t)
  /\ tx_outcome' = [tx_outcome EXCEPT ![t] = "returned"]
  /\ pc_tx' = [pc_tx EXCEPT ![t] = "idle"]
  /\ UNCHANGED <<transmit_buffer, tx_total_frames, tx_bad_frames, rx_total_frames,
                 rx_good_frames, rx_bad_frames, tx_arg, reg_tx, wire_writes,
                 n_transmits, tx_snap, tx_wrote, tx_unchanged>>

TransmitNext(t) ==
  \/ TransmitCall(t) \/ TransmitTotalStore(t)
  \/ TransmitEncodeOk(t) \/ TransmitEncodeFail(t)
  \/ TransmitWriteOk(t) \/ TransmitWriteFail(t)
  \/ TransmitBadLoad(t) \/ TransmitBadStore(t)
  \/ TransmitGoodLoad(t) \/ TransmitGoodStore(t)

\* ----------------------------------------------------- clear_statistics()
\* The value each assignment of clear_statistics() stores.
ClearedValue_Kept(old) == old
ClearedValue(old) == 0

\* The six assignments, one per step, in source order; it may be called at any
\* time, any number of times.
ClearStatistics ==
  /\ clr_base' = IF pc_clr = 0
                   THEN IF NoCountInProgress THEN [seq |-> TRUE] @@ Events ELSE NoClear
                   ELSE IF /\ clr_base.seq /\ NoCountInProgress
                           /\ clr_base = [seq |-> TRUE] @@ Events
                          THEN clr_base ELSE NoClear
  /\ pc_clr' = (pc_clr + 1) % 6
  /\ tx_total_frames' = IF pc_clr = 0 THEN ClearedValue(tx_total_frames) ELSE tx_total_frames
  /\ tx_good_frames' = IF pc_clr = 1 THEN ClearedValue(tx_good_frames) ELSE tx_good_frames
  /\ tx_bad_frames' = IF pc_clr = 2 THEN ClearedValue(tx_bad_frames) ELSE tx_bad_frames
  /\ rx_total_frames' = IF pc_clr = 3 THEN ClearedValue(rx_total_frames) ELSE rx_total_frames
  /\ rx_good_frames' = IF pc_clr = 4 THEN ClearedValue(rx_good_frames) ELSE rx_good_frames
  /\ rx_bad_frames' = IF pc_clr = 5 THEN ClearedValue(rx_bad_frames) ELSE rx_bad_frames
  /\ tx_interf' = IF pc_clr < 3 THEN [t \in Transmitters |-> TRUE] ELSE tx_interf
  /\ UNCHANGED <<serial_vars, cond_vars, run_vars, rx_vars, tx_vars, wire_writes,
                 line, n_receives, n_transmits,
                 fed, frames, slot_id, slot_pay, n_pub, superseded, superseding,
                 n_notify, frame_snap, frame_outcome, errored, msg_id, msg_pay,
                 call_sid, call_msg, call_pay, call_fail, pub_during, taken_during,
                 tx_snap,
                 tx_wrote, delivered, call_follows>>

\* ================================================================ claims
IsFlag(b) == b = HDLC_FLAG

WellFormedFrame(f) ==
  /\ Len(f) >= 3
  /\ IsFlag(f[1])
  /\ IsFlag(f[Len(f)])
  /\ \A i \in 2..(Len(f) - 1) : ~IsFlag(f[i])

\* C1: every completed raw frame, both as recorded when the closing delimiter
\* arrives and as it stands in receive_buffer when dehdlcify is called, starts
\* with the delimiter, ends with it, has at least one interior byte and has no
\* delimiter among its interior bytes.
C1_FramesWellFormed ==
  /\ pc_run \in {"total_ld", "total_st", "decode"} => WellFormedFrame(receive_buffer)
  /\ \A i \in DOMAIN frames : WellFormedFrame(frames[i].raw)

\* A frame with two interior bytes is about to be decoded, after an earlier
\* stretch of the stream that was not part of it.
C1_Witness ==
  /\ pc_run = "decode"
  /\ Len(receive_buffer) = 4
  /\ Len(fed) > 4

\* Index of the first delimiter of a stream (one past its end when there is none).
FirstFlag(s) ==
  IF \E i \in DOMAIN s : IsFlag(s[i])
    THEN CHOOSE i \in DOMAIN s : IsFlag(s[i]) /\ \A j \in 1..(i - 1) : ~IsFlag(s[j])
    ELSE Len(s) + 1

\* The step consumes one byte of the chunk.
FeedsByte == pc_run = "feed" /\ rx_bytes # <<>> /\ fed' # fed

C7_IdleStep ==
  (FeedsByte /\ ~is_receiving) =>
     LET b == Head(rx_bytes) IN
       IF ~IsFlag(b) /\ IsFlag(last_rx_byte)
         THEN is_receiving' /\ frames' = frames
         ELSE /\ ~is_receiving'
              /\ frames' = frames
              /\ receive_buffer' = receive_buffer
              /\ pc_run' = "feed"

C7_Consequences ==
  /\ (\A i \in DOMAIN fed : IsFlag(fed[i])) => frames = <<>> /\ ~is_receiving
  /\ (\A i \in DOMAIN fed : ~IsFlag(fed[i])) =>
        frames = <<>> /\ ~is_receiving /\ receive_buffer = <<>>
  /\ \A i \in DOMAIN frames :
       LET e == frames[i].at
           f == frames[i].raw
           s == e - Len(f) + 1
       IN  s >= FirstFlag(fed) /\ f = SubSeq(fed, s, e)
  /\ is_receiving =>
       LET s == Len(fed) - Len(receive_buffer) + 1
       IN  s >= FirstFlag(fed) /\ receive_buffer = SubSeq(fed, s, Len(fed))

\* C7: while idle, a byte starts a frame exactly when it is no delimiter and the
\* byte before it was one; any other byte leaves the synchronizer idle and emits
\* nothing.  So a stream of delimiters alone yields no frame, and every frame
\* (emitted or in progress) is a contiguous stretch of the stream that begins at
\* or after its first delimiter: the bytes before it are in no frame.
C7_IdleStart == [][C7_IdleStep]_vars /\ []C7_Consequences

\* Bytes before the first delimiter, then two delimiters in a row, then a frame.
C7_Witness ==
  /\ Len(fed) = 6
  /\ ~IsFlag(fed[1])
  /\ IsFlag(fed[2]) /\ IsFlag(fed[3])
  /\ Len(frames) = 1
  /\ frames[1].raw = SubSeq(fed, 3, 5)
  /\ ~is_receiving

\* C2: in every reachable state tx_total_frames = tx_good_frames + tx_bad_frames
\* and rx_total_frames = rx_good_frames + rx_bad_frames.
C2_StatisticsConsistent ==
  /\ tx_total_frames = tx_good_frames + tx_bad_frames
  /\ rx_total_frames = rx_good_frames + rx_bad_frames

\* No transmit() and no clear_statistics() call is in progress.
TxQuiescent == pc_clr = 0 /\ \A t \in Transmitters : pc_tx[t] = "idle"

\* The same sums, required only when no call is in progress.
C2_ConsistentWhenQuiescent ==
  TxQuiescent => tx_total_frames = tx_good_frames + tx_bad_frames

TxRaisedOnEncode(t) == pc_tx[t] = "idle" /\ tx_outcome[t] = "encode_error"

\* C4: a transmit() whose hdlcify raised never reaches serial_port.write and
\* never returns normally; when it has raised to its caller, and no other caller
\* stored a tx counter since it began, tx_bad_frames is one more than when it
\* began and tx_good_frames is what it was.
C4_EncodeFailure ==
  \A t \in Transmitters :
    /\ tx_outcome[t] = "encode_error" =>
         /\ pc_tx[t] \in {"bad_ld", "bad_st", "idle"}
         /\ ~tx_wrote[t]
    /\ (TxRaisedOnEncode(t) /\ ~tx_interf[t]) =>
         /\ tx_bad_frames = tx_snap[t].bad + 1
         /\ tx_good_frames = tx_snap[t].good
         /\ tx_total_frames = tx_snap[t].total + 1

\* A call has raised on encode after an earlier call went through.
C4_Witness ==
  \E t \in Transmitters :
    /\ TxRaisedOnEncode(t) /\ ~tx_interf[t]
    /\ tx_snap[t].good = 1
    /\ tx_bad_frames = 1
    /\ wire_writes = 1

\* receive() of consumer c has passed its test of the slot.
Checked(c) == pc_rx[c] \in {"reset", "return"} \/ (pc_rx[c] = "idle" /\ woke[c] # "no")
\* receive() of consumer c has returned (message[c], length[c]).
Returned(c) == pc_rx[c] = "idle" /\ woke[c] # "no"
\* Nothing but c's own call touched the slot or the condition during the call.
Undisturbed(c) == ~pub_during[c] /\ ~taken_during[c]

\* C3: when decoded frame B replaces an unread frame A in the slot while no
\* receive() is in progress, no receive() returns A afterwards; and a receive()
\* that begins with B in the slot, during which no other thread writes the slot,
\* returns B with B's length.
C3_MailboxOverwrite ==
  \A c \in Consumers :
    /\ msg_id[c] \notin superseded
    /\ (Checked(c) /\ call_sid[c] \in superseding /\ Undisturbed(c)) =>
         /\ message[c] = call_pay[c]
         /\ message[c] # <<>> => msg_id[c] = call_sid[c] /\ length[c] = Len(call_pay[c])

\* Frame 1 was replaced unread by frame 2, which a receive() then returned.
C3_Witness ==
  \E c \in Consumers :
    /\ Returned(c) /\ Undisturbed(c)
    /\ superseded = {1}
    /\ call_sid[c] = 2 /\ msg_id[c] = 2
    /\ message[c] = <<1>> /\ length[c] = 1

\* The except branch of the last completed frame has run to its end.
FailureHandled == frame_outcome = "fail" /\ pc_run \notin {"bad_ld", "bad_st"}

\* C5: after dehdlcify has failed on a frame completed while the slot was empty,
\* rx_total_frames and rx_bad_frames are each one more than when the frame was
\* completed, rx_good_frames is the same, no notify() was issued, the slot is
\* empty, the loop has not been left unless the stop event is set, and a
\* receive() that begins then, with no frame published during it, returns
\* (empty, -1).
C5_DecodeFailure ==
  /\ (FailureHandled /\ frame_snap.empty) =>
       /\ rx_total_frames = frame_snap.total + 1
       /\ rx_bad_frames = frame_snap.bad + 1
       /\ rx_good_frames = frame_snap.good
       /\ n_notify = frame_snap.notify
       /\ pc_run \in {"close", "done"} => stop_event
  /\ \A c \in Consumers :
       (Returned(c) /\ call_fail[c] /\ ~pub_during[c]) =>
          message[c] = <<>> /\ length[c] = -1

\* The second frame of the stream failed to decode after the first was decoded
\* and collected; a receive() begun after the failure has returned.
C5_Witness ==
  \E c \in Consumers :
    /\ FailureHandled /\ frame_snap.empty
    /\ rx_total_frames = 2 /\ rx_good_frames = 1 /\ rx_bad_frames = 1
    /\ Returned(c) /\ call_fail[c] /\ ~pub_during[c]
    /\ ~stop_event

\* C6: a non-empty message held by a receive() caller, and a non-empty slot, is
\* the payload a successful dehdlcify returned for one completed frame: never the
\* raw receive_buffer, never anything left by a failed decode.
C6_OnlyDecodedFrames ==
  /\ receive_message # <<>> => slot_id > 0 /\ receive_message = slot_pay
  /\ \A c \in Consumers :
       message[c] # <<>> =>
         /\ msg_id[c] \in 1..n_pub
         /\ message[c] = msg_pay[c]
         /\ message[c] \in Payloads
         /\ length[c] = Len(msg_pay[c])

\* A receive() returned a decoded payload although another frame failed to decode.
C6_Witness ==
  \E c \in Consumers :
    /\ Returned(c) /\ message[c] = <<1>> /\ msg_id[c] = 1
    /\ rx_bad_frames = 1

\* C8: a receive() that began with the slot empty, during which the run() thread
\* neither stored a frame nor notified, ends its wait by timeout only, leaves the
\* slot empty and returns (empty, -1).
C8_EmptyReceive ==
  \A c \in Consumers :
    (call_msg[c] = <<>> /\ ~pub_during[c]) =>
       /\ pc_rx[c] \in {"woken", "check", "reset", "return"} => woke[c] = "timeout"
       /\ pc_rx[c] = "return" => receive_message = <<>>
       /\ (pc_rx[c] \in {"reset", "return"} \/ Returned(c)) =>
             message[c] = <<>> /\ length[c] = -1 /\ woke[c] = "timeout"

\* Such a receive() has returned while the thread was running and a frame was
\* only being assembled.
C8_Witness ==
  \E c \in Consumers :
    /\ Returned(c) /\ call_msg[c] = <<>> /\ call_sid[c] = 0 /\ ~pub_during[c]
    /\ woke[c] = "timeout" /\ length[c] = -1
    /\ is_receiving

Closed == pc_run = "done" /\ port_closes = 1

C9_Steps ==
  /\ stop_event => stop_event'
  /\ (pc_run # "close" /\ pc_run' = "close") =>
        (pc_run = "loop" /\ stop_event) \/ (pc_run = "poll" /\ errored')
  /\ port_closes' # port_closes => pc_run = "close" /\ port_closes' = 1

\* C9: the stop event, once set, is never cleared; the loop is left only at its
\* top with the event set (or by the break of a port error); close() is called
\* once, on leaving; and once the event is set in a started thread, the thread
\* eventually has left the loop and closed the port.
C9_StopShutsDown ==
  /\ [][C9_Steps]_vars
  /\ [](port_closes <= 1)
  /\ (stop_event /\ pc_run # "init") ~> Closed

\* stop() came while a frame was being assembled; the thread then closed the port.
C9_Witness ==
  /\ Closed /\ stop_event /\ ~errored
  /\ is_receiving

C10_Steps ==
  /\ (~errored /\ errored') =>
        /\ stop_event'
        /\ pc_run' = "close"
        /\ rx_bytes' = <<>>
        /\ UNCHANGED <<stat_vars, receive_message, slot_id, n_notify, cond_vars,
                       fed, frames, is_receiving, receive_buffer>>
  /\ errored =>
        /\ pc_run' \in {"close", "done"}
        /\ UNCHANGED <<fed, frames, stat_vars, n_notify, stop_event>>

\* C10: the step in which in_waiting or read() raises sets the stop event, leaves
\* no byte to feed and goes straight to close(), changing no counter and nothing
\* of the slot; afterwards run() feeds no byte, starts no iteration and counts
\* nothing, and it eventually has closed the port.
C10_PortError ==
  /\ [][C10_Steps]_vars
  /\ errored ~> Closed

\* The port raised in the middle of a frame, after an earlier poll had read bytes.
C10_Witness ==
  /\ errored /\ Closed
  /\ is_receiving /\ Len(fed) = 2

\* transmit() of caller t has come back to its caller, normally or by raising.
TxDone(t) == pc_tx[t] = "idle" /\ tx_outcome[t] # "none"

C11_Steps ==
  \A t \in Transmitters :
    pc_tx'[t] # pc_tx[t] =>
      UNCHANGED <<rx_total_frames, rx_good_frames, rx_bad_frames, receive_message,
                  receive_buffer, is_receiving, cond_vars, slot_id, n_notify>>

C11_Outcome ==
  \A t \in Transmitters :
    /\ tx_outcome[t] = "write_error" => pc_tx[t] \in {"bad_ld", "bad_st", "idle"}
    /\ tx_outcome[t] = "returned" => pc_tx[t] = "idle" /\ tx_wrote[t]
    /\ (TxDone(t) /\ ~tx_interf[t]) =>
         /\ tx_total_frames = tx_snap[t].total + 1
         /\ IF tx_outcome[t] = "returned"
              THEN tx_good_frames = tx_snap[t].good + 1 /\ tx_bad_frames = tx_snap[t].bad
              ELSE tx_bad_frames = tx_snap[t].bad + 1 /\ tx_good_frames = tx_snap[t].good

\* C11: a transmit() call during which no other caller stores a tx counter leaves
\* tx_total_frames one more than when it began and exactly one of tx_good_frames,
\* tx_bad_frames one more: tx_good_frames when hdlcify and serial_port.write both
\* returned (the call then returns), tx_bad_frames when either raised (the call
\* then raises); and no step of transmit() changes an rx counter, the slot, the
\* receive buffer or the condition.
C11_TransmitCounts == [][C11_Steps]_vars /\ []C11_Outcome

\* A call whose write raised has come back, after an earlier call that returned.
C11_Witness ==
  \E t \in Transmitters :
    /\ TxDone(t) /\ tx_outcome[t] = "write_error" /\ ~tx_interf[t]
    /\ tx_snap[t].good = 1
    /\ tx_bad_frames = 1 /\ tx_total_frames = 2

\* The step is one of the assignments of clear_statistics().
ClearStep == pc_clr' # pc_clr

C12_Steps ==
  ~ClearStep =>
    /\ tx_total_frames' >= tx_total_frames
    /\ tx_good_frames' >= tx_good_frames
    /\ tx_bad_frames' >= tx_bad_frames
    /\ rx_total_frames' >= rx_total_frames
    /\ rx_good_frames' >= rx_good_frames
    /\ rx_bad_frames' >= rx_bad_frames

\* C12: no step other than an assignment of clear_statistics() lowers any of the
\* six counters, whatever the interleaving of the load and the store of each
\* += 1 among the callers of transmit().
C12_CountersMonotone == [][C12_Steps]_vars

C13_Steps ==
  /\ n_pub' # n_pub => cond_owner = "run"
  /\ n_notify' # n_notify => cond_owner = "run" /\ cond_owner' = "run"
  /\ (cond_owner = "run" /\ cond_owner' # "run") => pc_run = "release"

\* C13: run() stores a decoded frame in receive_message only while it holds the
\* lock of receive_condition, calls notify() while holding it, and releases it
\* only after the notify().
C13_PublishLocked == [][C13_Steps]_vars

\* The counters of an instance constructed when the last clear_statistics() was
\* called, after the transmit() calls and the frames that came since: every call
\* counted in tx_total_frames and every completed frame in rx_total_frames, each
\* as good when its write or its decode returned and as bad otherwise.
FreshStats ==
  LET e == Events
      calls == e.calls - clr_base.calls
      writes == e.writes - clr_base.writes
      raws == e.frames - clr_base.frames
      pubs == e.pubs - clr_base.pubs
  IN  [tx_total |-> calls, tx_good |-> writes, tx_bad |-> calls - writes,
       rx_total |-> raws, rx_good |-> pubs, rx_bad |-> raws - pubs]

\* A clear_statistics() call ran by itself and no call is in progress now.
AfterClear == clr_base.seq /\ pc_clr = 0 /\ NoCountInProgress

C14_Steps ==
  ClearStep =>
    UNCHANGED <<serial_vars, cond_vars, run_vars, rx_vars, tx_vars, wire_writes,
                line, fed, frames, slot_id, n_pub, delivered>>

\* C14: once a clear_statistics() call has run by itself (no transmit() in
\* progress, run() not in the middle of counting a frame), the six counters are,
\* after any sequence of transmit() calls and received chunks, what a freshly
\* constructed instance holds after the same sequence, whatever they were before
\* the call; and no step of clear_statistics() changes anything but the counters.
C14_ClearIsFresh == [][C14_Steps]_vars /\ [](AfterClear => Stats = FreshStats)

\* The tx counters were non-zero before the clear, and a frame has been counted
\* since.
C14_Witness ==
  /\ AfterClear
  /\ clr_base.calls = 1 /\ clr_base.frames = 0
  /\ tx_total_frames = 0 /\ rx_total_frames = 1

\* run() is between completing a frame and having counted it.
CountingTotal == pc_run \in {"total_ld", "total_st"}

C15_Steps ==
  /\ Len(frames') # Len(frames) <=>
       FeedsByte /\ is_receiving /\ IsFlag(Head(rx_bytes))
  /\ Len(frames') # Len(frames) =>
       /\ Len(frames') = Len(frames) + 1
       /\ frames'[Len(frames')].raw = Append(receive_buffer, HDLC_FLAG)
  /\ rx_total_frames' # rx_total_frames =>
       /\ rx_total_frames' = rx_total_frames + 1
       /\ IsFlag(fed[Len(fed)])
       /\ frames[Len(frames)].at = Len(fed)

C15_Counted ==
  /\ rx_total_frames = Len(frames) - (IF CountingTotal THEN 1 ELSE 0)
  /\ (fed = <<HDLC_FLAG, 1, 2, HDLC_FLAG>> /\ ~CountingTotal) =>
        /\ Len(frames) = 1
        /\ frames[1].raw = <<HDLC_FLAG, 1, 2, HDLC_FLAG>>
        /\ rx_total_frames = 1

\* C15: with no clear_statistics(), a raw frame is completed exactly by a
\* delimiter received while a frame is being received, rx_total_frames goes up
\* by one for that byte and for no other, and once the byte is counted it equals
\* the number of frames completed; the stream FLAG, 1, 2, FLAG gives the one
\* frame [FLAG, 1, 2, FLAG] and rx_total_frames = 1.
C15_TotalCountsFrames == [][C15_Steps]_vars /\ []C15_Counted

\* The stream of the example has been read and its frame counted.
C15_Witness ==
  /\ fed = <<HDLC_FLAG, 1, 2, HDLC_FLAG>>
  /\ pc_run = "feed"
  /\ rx_total_frames = 1

\* The step is the except branch taken for a frame dehdlcify rejected.
DecodeFails == pc_run = "decode" /\ frame_outcome' = "fail"

C16_Steps == DecodeFails => receive_message' = receive_message /\ slot_id' = slot_id

\* C16: a failed dehdlcify leaves receive_message as it was, so a decoded frame
\* held unread in the slot is still there for the next receive().
C16_FailureKeepsSlot == [][C16_Steps]_vars

\* No dehdlcify has failed up to and including this step.
NoDecodeFailed ==
  rx_bad_frames = 0 /\ frame_outcome # "fail" /\ frame_outcome' # "fail"

C17_Steps ==
  (NoDecodeFailed /\ slot_id > 0 /\ receive_message # <<>> /\ slot_id' # slot_id) =>
     \/ n_pub' # n_pub
     \/ \E c \in Consumers : pc_rx[c] = "reset" /\ msg_id[c] = slot_id

\* C17: as long as no decode fails, a decoded frame held in receive_message
\* leaves it only in a step that stores a later decoded frame or in the reset of
\* a receive() that has copied that very frame and returns it.
C17_NoFrameErased == [][C17_Steps]_vars

\* Index in the stream of the opening delimiter of the i-th emitted frame, and
\* of the frame being received.
FrameStart(i) == frames[i].at - Len(frames[i].raw) + 1
PartialStart == Len(fed) - Len(receive_buffer) + 1

\* The last byte read closed a frame and its end branch has run to its end.
JustEmitted ==
  /\ frames # <<>> /\ frames[Len(frames)].at = Len(fed)
  /\ pc_run \in {"feed", "loop", "poll", "close", "done"}

C18_Idle ==
  /\ JustEmitted => ~is_receiving /\ last_rx_byte = NoByte /\ receive_buffer = <<>>
  /\ \A i \in DOMAIN frames :
       /\ IsFlag(fed[FrameStart(i)])
       /\ i > 1 => FrameStart(i) > frames[i - 1].at
  /\ (is_receiving /\ frames # <<>>) =>
       /\ PartialStart > frames[Len(frames)].at
       /\ IsFlag(fed[PartialStart])
  /\ fed = <<HDLC_FLAG, 1, HDLC_FLAG, 2, HDLC_FLAG>> =>
       Len(frames) = 1 /\ frames[1].raw = <<HDLC_FLAG, 1, HDLC_FLAG>> /\ ~is_receiving
  /\ fed = <<HDLC_FLAG, 1, HDLC_FLAG, HDLC_FLAG, 2, HDLC_FLAG>> =>
       /\ Len(frames) = 2
       /\ frames[1].raw = <<HDLC_FLAG, 1, HDLC_FLAG>>
       /\ frames[2].raw = <<HDLC_FLAG, 2, HDLC_FLAG>>

C18_Steps ==
  (FeedsByte /\ is_receiving') =>
     \/ is_receiving
     \/ ~IsFlag(Head(rx_bytes)) /\ IsFlag(fed[Len(fed)]) /\ IsFlag(last_rx_byte)

\* C18: once a frame has been emitted and its end branch is over, the
\* synchronizer is idle with last_rx_byte cleared and an empty buffer; a frame
\* starts only at a non-delimiter byte that directly follows a delimiter, and the
\* opening delimiter of every frame comes in the stream after the closing
\* delimiter of the frame before it.  D,a,D,b,D gives [D,a,D] alone and
\* D,a,D,D,b,D gives [D,a,D] and [D,b,D].
C18_ClosingNotReused == [][C18_Steps]_vars /\ []C18_Idle

\* Two frames separated by their own delimiters have been emitted.
C18_Witness ==
  /\ fed = <<HDLC_FLAG, 1, HDLC_FLAG, HDLC_FLAG, 2, HDLC_FLAG>>
  /\ Len(frames) = 2
  /\ JustEmitted

\* The stream with a single delimiter between the payload bytes has been read.
C18_WitnessShared ==
  /\ fed = <<HDLC_FLAG, 1, HDLC_FLAG, 2, HDLC_FLAG>>
  /\ Len(frames) = 1

\* The body of the for loop of run() for one byte, on the synchronizer alone:
\* whether a frame is being received, the previous byte, the buffer and the raw
\* frames completed so far.
SyncStep(st, b) ==
  IF StartOfFrame(st.recv, st.last, b)
    THEN [recv |-> TRUE, last |-> b, buf |-> StartBuffer(b), out |-> st.out]
  ELSE IF MiddleOfFrame(st.recv, b)
    THEN [recv |-> TRUE, last |-> b, buf |-> Append(st.buf, b), out |-> st.out]
  ELSE IF EndOfFrame(st.recv, b)
    THEN [recv |-> FALSE, last |-> LastAfterEnd(NoByte), buf |-> <<>>,
          out |-> Append(st.out, Append(st.buf, b))]
  ELSE [recv |-> st.recv, last |-> b, buf |-> st.buf, out |-> st.out]

\* The synchronizer after the whole of s has gone through the loop as one chunk.
RECURSIVE OneChunk(_)
OneChunk(s) ==
  IF s = <<>>
    THEN [recv |-> FALSE, last |-> NoByte, buf |-> <<>>, out |-> <<>>]
    ELSE SyncStep(OneChunk(SubSeq(s, 1, Len(s) - 1)), s[Len(s)])

RawFrames == [i \in DOMAIN frames |-> frames[i].raw]

\* run() is not inside the end branch of a frame.
BetweenBytes == pc_run \in {"init", "loop", "poll", "feed", "close", "done"}

\* C19: however the bytes read so far were split into chunks (empty reads
\* included), the raw frames completed are those the same bytes give as a single
\* chunk, and between two bytes so are is_receiving, last_rx_byte and
\* receive_buffer.
C19_ChunkingIndependent ==
  LET one == OneChunk(fed) IN
    /\ RawFrames = one.out
    /\ BetweenBytes =>
         /\ is_receiving = one.recv
         /\ last_rx_byte = one.last
         /\ receive_buffer = one.buf

\* The chunk just consumed held the first payload byte alone: the opening
\* delimiter came in an earlier read.
C19_Witness ==
  /\ pc_run = "feed" /\ rx_bytes = <<>> /\ rx_length = 1
  /\ fed = <<HDLC_FLAG, 1>>
  /\ is_receiving

\* A read boundary inside a frame, the frame then being completed.
C19_WitnessInside ==
  /\ pc_run = "feed" /\ rx_bytes = <<>> /\ rx_length = 1
  /\ fed = <<HDLC_FLAG, 1, 2, HDLC_FLAG>>
  /\ Len(frames) = 1

\* C20: the frames copied out by receive() calls are published frames, each
\* copied by one call only; a receive() begun when the latest published frame had
\* already been returned, with no store and no notify by run() during it,
\* returns (empty, -1); and a returned frame comes with its own length.
C20_AtMostOnce ==
  /\ \A i \in DOMAIN delivered :
       /\ delivered[i] \in 1..n_pub
       /\ \A j \in DOMAIN delivered : i # j => delivered[i] # delivered[j]
  /\ \A c \in Consumers :
       /\ (Checked(c) /\ call_follows[c] /\ ~pub_during[c]) =>
             message[c] = <<>> /\ length[c] = -1
       /\ message[c] # <<>> => length[c] = Len(message[c])

\* One receive() returned frame 1; the next one, begun before anything else was
\* published, has returned empty-handed.
C20_Witness ==
  \E c, d \in Consumers :
    /\ c # d
    /\ Returned(c) /\ msg_id[c] = 1 /\ message[c] = <<1>> /\ length[c] = 1
    /\ Returned(d) /\ call_follows[d] /\ ~pub_during[d]
    /\ delivered = <<1>>

\* ------------------------------------------------------- specifications
\* All threads together.  The receive path and the transmit path share no state
\* but the counters, so each property is checked under the specification of the
\* threads that can affect it, which keeps the state spaces small.
Next ==
  \/ RunNext
  \/ Stop
  \/ \E c \in Consumers : ReceiveNext(c)
  \/ \E t \in Transmitters : TransmitNext(t)
  \/ ClearStatistics

Init == Constructed /\ line \in RxLines \cup TxLines
Spec == Init /\ [][Next]_vars

\* The Serial thread with receive() callers; the loop is left by a port error.
NextRx == RunNext \/ \E c \in Consumers : ReceiveNext(c)
InitRx == Constructed /\ line \in RxLines
SpecRx == InitRx /\ [][NextRx]_vars

\* Concurrent transmit() callers.
NextTx == \E t \in Transmitters : TransmitNext(t)
InitTx == Constructed /\ line \in TxLines
SpecTx == InitTx /\ [][NextTx]_vars

\* The Serial thread, stop() and a receive() caller, every started thread being
\* scheduled again and again: a started run() takes its next step, a receive() in progress
\* takes its next step (its wait ends at the latest by timeout).
InitLive == Constructed /\ line \in LiveLines
NextLive == RunNext \/ Stop \/ ReceiveNext("c1")
SpecLive ==
  /\ InitLive /\ [][NextLive]_vars
  /\ WF_vars(RunSteps)
  /\ WF_vars(ReceiveSteps("c1"))

\* The Serial thread, one transmit() caller and clear_statistics().
NextClear == RunNext \/ TransmitNext("t1") \/ ClearStatistics
InitClear == Constructed /\ line \in LiveLines
SpecClear == InitClear /\ [][NextClear]_vars

\* The Serial thread alone.
NextSync == RunNext \/ Stop
InitSync == Constructed /\ line \in Lines
SpecSync == InitSync /\ [][NextSync]_vars

====
